---- MODULE Spec2Model ----
(***************************************************************************)
(* Battlefield messaging fabric of SainyaSecure.                           *)
(*                                                                         *)
(* Several state machines share this module:                                 *)
(*   SimSpec   - P2PNetworkSimulator with its per-node LocalLedger         *)
(*               (backend/p2p_comm/battlefield_network.py) and the         *)
(*               MilitaryBlockchain hashing it calls                       *)
(*               (backend/utils/military_crypto.py);                       *)
(*   Spec      - BattlefieldCommunicationServer, the asyncio demo hub      *)
(*               (demo/battlefield_server.py), one task per client         *)
(*               session plus the scheduled node-recovery tasks;           *)
(*   RouteSpec - route_message_p2p of the hub as a function of an          *)
(*               arbitrary registry (number of nodes, positions,           *)
(*               statuses, sender);                                        *)
(*   ChainSpec - validate_block_chain / validate_block_hash applied to a   *)
(*               chain grown by LocalLedger.add_message, or handed in      *)
(*               from outside, and possibly edited in place;               *)
(*   SessionSpec - the session layer of the hub: handle_client_connection, *)
(*               the frames that are dropped, and broadcast_to_clients as  *)
(*               a coroutine that suspends at every websocket.send;        *)
(*   CryptoSpec - MilitaryCrypto.aes_encrypt / aes_decrypt on one payload, *)
(*               with the AES-GCM primitive of the library they call       *)
(*               modelled by a keyed stream and a keyed tag;               *)
(*   HopSpec   - deliver_via_p2p of the simulator for a sender with an     *)
(*               arbitrary set of connected peers;                         *)
(*   FairSpec  - Spec under the scheduling of the event loop: every        *)
(*               coroutine asleep in asyncio.sleep is resumed.             *)
(* Node ids are strings; None is the string "None".  Wall-clock fields     *)
(* (timestamp, last_seen) are not modelled: the only code that reads them  *)
(* is get_messages_since, whose result feeds a log line.                   *)
(***************************************************************************)
EXTENDS Integers, Sequences, FiniteSets, TLC

VARIABLES
    \* ---- P2PNetworkSimulator ----
    sim_server_online,   \* P2PNetworkSimulator.server_online
    sim_lamport_clock,   \* P2PNetworkSimulator.lamport_clock (one clock for the network)
    connectivity_mode,   \* PeerNode.connectivity_mode, per node
    is_online,           \* PeerNode.is_online, per node
    blocks,              \* LocalLedger.blocks, per node
    last_block_hash,     \* LocalLedger.last_block_hash, per node
    pending_messages,    \* LocalLedger.pending_messages, per node
    message_queues,      \* P2PNetworkSimulator.message_queues, per node
    sim_result,          \* return value of the last send_message call
    \* ---- BattlefieldCommunicationServer ----
    server_online,       \* self.server_online
    network_state,       \* self.network_state
    status,              \* BattlefieldNode.status, per node
    lamport_clock,       \* BattlefieldNode.lamport_clock, per node
    message_queue,       \* BattlefieldNode.message_queue, per node
    messages,            \* self.messages
    events,              \* self.events
    task,                \* per client session: where its handler is suspended
    recovery_tasks,      \* nodes with a schedule_node_recovery task asleep
    \* ---- route_message_p2p on an arbitrary registry ----
    rt_nodes, rt_position, rt_status, rt_sender, rt_path, rt_done,
    \* ---- validate_block_chain on one chain ----
    ch_kind,             \* "ledger": a LocalLedger's blocks; "foreign": blocks handed in
    ch_blocks,           \* the list of blocks
    ch_last_hash,        \* LocalLedger.last_block_hash of a "ledger" chain
    ch_altered,          \* position of the block edited in place, 0 when none
    ch_checked,          \* validation has run on ch_blocks as they are
    ch_chain_valid,      \* what validate_block_chain returned
    ch_block_valid,      \* what validate_block_hash returned, per block
    \* ---- client sessions and broadcast_to_clients ----
    session,             \* per session: "new", "open", "broken" (transport), "closed"
    client_connections,  \* self.client_connections: the dict's entries, 0 where deleted
    frames_handled,      \* per task: frames its handler has taken up
    bc,                  \* per task: its broadcast_to_clients call, where suspended
    \* ---- MilitaryCrypto.aes_encrypt / aes_decrypt on one payload ----
    aes_key,             \* the key
    aes_plaintext,       \* the str handed to aes_encrypt, as its code points
    aes_blob,            \* the dict aes_encrypt returned, possibly altered since
    aes_tampered,        \* a byte of the blob was changed after sealing
    aes_result,          \* what aes_decrypt did: the str returned, or ValueError
    \* ---- deliver_via_p2p on an arbitrary network ----
    hp_peers,            \* network_topology[sender]: the sender's connected peers
    hp_online,           \* PeerNode.is_online, per connected peer
    hp_queues,           \* message_queues, per connected peer
    hp_message,          \* the P2PMessage handed to deliver_via_p2p
    hp_done              \* deliver_via_p2p has returned

simVars == <<sim_server_online, sim_lamport_clock, connectivity_mode, is_online,
             blocks, last_block_hash, pending_messages, message_queues, sim_result>>
demoVars == <<server_online, network_state, status, lamport_clock, message_queue,
              messages, events, task, recovery_tasks>>
rtVars == <<rt_nodes, rt_position, rt_status, rt_sender, rt_path, rt_done>>
chVars == <<ch_kind, ch_blocks, ch_last_hash, ch_altered, ch_checked, ch_chain_valid,
            ch_block_valid>>
sessVars == <<session, client_connections, frames_handled, bc>>
aesVars == <<aes_key, aes_plaintext, aes_blob, aes_tampered, aes_result>>
hopVars == <<hp_peers, hp_online, hp_queues, hp_message, hp_done>>
vars == <<simVars, demoVars, rtVars, chVars, sessVars, aesVars, hopVars>>

None == "None"

\* ------------------------------------------------------------------------
\* Bounds of the model
\* ------------------------------------------------------------------------
MaxSends == 2        \* send_message calls on the simulator
HashLen == 4         \* digits of a digest (64 in a SHA-256 hexdigest)
DigitBase == 4       \* size of the digit alphabet of a digest (16 for hex)
NumClients == 2      \* client sessions connected to the hub
MaxMessages == 2     \* messages created by the hub
MaxEvents == 3       \* length of the hub's event log
MaxRouteNodes == 6   \* size of the registries RouteSpec draws
MaxChain == 3        \* blocks of the chain ChainSpec validates
NumSessions == 2     \* client sessions SessionSpec lets connect
MaxFrames == 1       \* frames one task takes up in SessionSpec
MaxPlain == 2        \* characters of the plaintext CryptoSpec seals
IvLen == 1           \* bytes of an IV (12 in aes_encrypt)
TagLen == 2          \* bytes of a GCM tag (16 in PyCryptodome)
MaxPeers == 6        \* connected peers of the sender in HopSpec

\* ------------------------------------------------------------------------
\* Generic helpers
\* ------------------------------------------------------------------------
RECURSIVE Pow(_, _)
Pow(b, e) == IF e = 0 THEN 1 ELSE b * Pow(b, e - 1)

Range(s) == {s[i] : i \in 1..Len(s)}

IndexOf(s, x) == CHOOSE i \in 1..Len(s) : s[i] = x

SetMax(S) == CHOOSE x \in S : \A y \in S : y <= x

\* ------------------------------------------------------------------------
\* MilitaryBlockchain: calculate_block_hash, mine_block
\* ------------------------------------------------------------------------
SimNodeOrder == <<"alpha_1", "bravo_1", "charlie_1", "delta_1">>
SimNodes == Range(SimNodeOrder)

Contents == {"move"}

NodeCode(n) == IF n \in SimNodes THEN IndexOf(SimNodeOrder, n) ELSE 0
ContentCode(c) == IF c = "move" THEN 1 ELSE 2

HashSpace == Pow(DigitBase, HashLen)
ZeroHash == 0
Difficulty == 2

\* The digest as the string of its HashLen digits, most significant first.
Hex(h) == [i \in 1..HashLen |-> (h \div Pow(DigitBase, HashLen - i)) % DigitBase]

\* message.to_dict() as stored in a block
MessageDigest(m) ==
    3 * NodeCode(m.sender_id) + 7 * NodeCode(m.receiver_id) + 11 * ContentCode(m.content)
      + 13 * m.lamport_clock + 29 * m.hop_count + 31 * m.max_hops

\* sha256(json.dumps(block_data, sort_keys=True)).hexdigest(): a deterministic
\* function of every field of block_data (block_hash is not among them when
\* the hash is taken).  The nonce term steps through the digest space so that
\* the search of mine_block ends.
calculate_block_hash(b) ==
    ( 37 * b.block_number + 41 * b.previous_hash + 43 * MessageDigest(b.message_data)
      + 47 * NodeCode(b.node_id) + (Pow(DigitBase, HashLen - Difficulty) - 1) * b.nonce ) % HashSpace

\* block_hash.startswith("0" * difficulty)
StartsWithTarget(h, difficulty) == \A i \in 1..difficulty : Hex(h)[i] = 0

RECURSIVE MineFrom(_, _, _)
MineFrom(b, difficulty, nonce) ==
    LET candidate == [b EXCEPT !.nonce = nonce]
        block_hash == calculate_block_hash(candidate)
    IN  IF StartsWithTarget(block_hash, difficulty)
        THEN <<block_hash, nonce>>
        ELSE MineFrom(b, difficulty, nonce + 1)

\* mine_block with the search started at nonce 1
mine_block_from_one(b, difficulty) == MineFrom(b, difficulty, 1)

\* MilitaryBlockchain.mine_block: <<block_hash, nonce>>
mine_block(b, difficulty) == MineFrom(b, difficulty, 0)

\* ------------------------------------------------------------------------
\* LocalLedger
\* ------------------------------------------------------------------------
\* add_message without line 111: last_block_hash is left as it was
add_message_stale_hash(ledger_blocks, ledger_last_hash, node_id, message) ==
    LET block == [ block_number  |-> Len(ledger_blocks),
                   previous_hash |-> ledger_last_hash,
                   message_data  |-> message,
                   node_id       |-> node_id,
                   nonce         |-> 0 ]
        mined == mine_block(block, Difficulty)
        stored == [ block_number  |-> block.block_number,
                    previous_hash |-> block.previous_hash,
                    message_data  |-> block.message_data,
                    node_id       |-> block.node_id,
                    nonce         |-> mined[2],
                    block_hash    |-> mined[1] ]
    IN  <<Append(ledger_blocks, stored), ledger_last_hash>>

\* LocalLedger.add_message: the ledger after the append, as <<blocks, last_block_hash>>
add_message(ledger_blocks, ledger_last_hash, node_id, message) ==
    LET block == [ block_number  |-> Len(ledger_blocks),
                   previous_hash |-> ledger_last_hash,
                   message_data  |-> message,
                   node_id       |-> node_id,
                   nonce         |-> 0 ]
        mined == mine_block(block, Difficulty)
        stored == [ block_number  |-> block.block_number,
                    previous_hash |-> block.previous_hash,
                    message_data  |-> block.message_data,
                    node_id       |-> block.node_id,
                    nonce         |-> mined[2],
                    block_hash    |-> mined[1] ]
    IN  <<Append(ledger_blocks, stored), mined[1]>>

\* MilitaryBlockchain.validate_block_hash: the stored hash against the hash
\* of the block without its block_hash entry
validate_block_hash(block) ==
    LET stored_hash == block.block_hash
        block_copy == [ block_number  |-> block.block_number,
                        previous_hash |-> block.previous_hash,
                        message_data  |-> block.message_data,
                        node_id       |-> block.node_id,
                        nonce         |-> block.nonce ]
        calculated_hash == calculate_block_hash(block_copy)
    IN  stored_hash = calculated_hash

\* validate_block_chain without lines 285-286: the first block's hash is not checked
validate_block_chain_skip_first(chain) ==
    IF chain = <<>> THEN TRUE
    ELSE \A i \in 2..Len(chain) :
            /\ chain[i].previous_hash = chain[i - 1].block_hash
            /\ validate_block_hash(chain[i])

\* MilitaryBlockchain.validate_block_chain
validate_block_chain(chain) ==
    IF chain = <<>> THEN TRUE
    ELSE IF ~validate_block_hash(chain[1]) THEN FALSE
    ELSE \A i \in 2..Len(chain) :
            /\ chain[i].previous_hash = chain[i - 1].block_hash
            /\ validate_block_hash(chain[i])

\* LocalLedger.validate_chain
validate_chain(ledger_blocks) == validate_block_chain(ledger_blocks)

\* ------------------------------------------------------------------------
\* P2PNetworkSimulator
\* ------------------------------------------------------------------------
UnknownNode == "zulu_9"
NodeInputs == {"bravo_1", "charlie_1", UnknownNode}
SenderInputs == {"alpha_1", "bravo_1", UnknownNode}
ReceiverInputs == {None, "bravo_1", "charlie_1", UnknownNode}

\* PeerNode.location of initialize_demo_network, in units of 1e-4 degree
location(n) ==
    CASE n = "alpha_1"   -> <<327767, -967970>>
      [] n = "bravo_1"   -> <<327800, -968000>>
      [] n = "charlie_1" -> <<327750, -967950>>
      [] n = "delta_1"   -> <<327820, -967980>>

\* max_range.get(mode, 0.1), squared, in the units of location; ONLINE is unbounded
WithinRange(mode, n1, n2) ==
    LET dlat == location(n2)[1] - location(n1)[1]
        dlon == location(n2)[2] - location(n1)[2]
        d2 == dlat * dlat + dlon * dlon
    IN  CASE mode = "online"    -> TRUE
          [] mode = "p2p_radio" -> d2 <= 5000 * 5000
          [] OTHER              -> d2 <= 1000 * 1000

can_communicate_p2p(mode1, on1, on2, n1, n2) ==
    WithinRange(mode1, n1, n2) /\ on1 /\ on2

\* establish_p2p_connections is called once, by initialize_demo_network, when
\* every node is ONLINE and is_online; the adjacency is never recomputed.
network_topology ==
    [n \in SimNodes |->
        {m \in SimNodes \ {n} :
            LET i == IndexOf(SimNodeOrder, n)
                j == IndexOf(SimNodeOrder, m)
            IN  IF i < j THEN can_communicate_p2p("online", TRUE, TRUE, n, m)
                         ELSE can_communicate_p2p("online", TRUE, TRUE, m, n)}]

SimInit ==
    /\ sim_server_online = TRUE
    /\ sim_lamport_clock = 0
    /\ connectivity_mode = [n \in SimNodes |-> "online"]
    /\ is_online = [n \in SimNodes |-> TRUE]
    /\ blocks = [n \in SimNodes |-> <<>>]
    /\ last_block_hash = [n \in SimNodes |-> ZeroHash]
    /\ pending_messages = [n \in SimNodes |-> <<>>]
    /\ message_queues = [n \in SimNodes |-> <<>>]
    /\ sim_result = TRUE

\* deliver_via_server: <<queues, returned flag>>
deliver_via_server(queues, message) ==
    IF message.receiver_id # None
    THEN IF message.receiver_id \in DOMAIN queues
         THEN <<[queues EXCEPT ![message.receiver_id] = Append(@, message)], TRUE>>
         ELSE <<queues, FALSE>>
    ELSE <<[n \in DOMAIN queues |->
               IF n # message.sender_id THEN Append(queues[n], message) ELSE queues[n]],
           TRUE>>

\* The peers deliver_via_p2p does not skip
OnlinePeers(connected_peers, online) == {p \in connected_peers : online[p]}

\* The loop of deliver_via_p2p over connected_peers, the network_topology
\* entry of the sender: <<queues, returned flag, the message as the loop
\* leaves it>>.  The queues hold the message object itself, so every copy
\* shows the hop_count the loop ends with.
deliver_via_p2p_from(connected_peers, queues, online, message) ==
    IF message.hop_count >= message.max_hops
    THEN <<queues, FALSE, message>>
    ELSE LET peers == OnlinePeers(connected_peers, online)
             forwarded == IF message.receiver_id = None THEN {}
                          ELSE {p \in peers : p # message.receiver_id}
             reached == IF message.receiver_id = None THEN peers
                        ELSE {p \in peers : p = message.receiver_id}
             final == [message EXCEPT !.hop_count = @ + Cardinality(forwarded)]
         IN  <<[n \in DOMAIN queues |->
                   IF n \in reached THEN Append(queues[n], final) ELSE queues[n]],
               reached # {},
               final>>

\* deliver_via_p2p on the demo network: <<queues, returned flag>>
deliver_via_p2p(queues, online, message) ==
    LET done == deliver_via_p2p_from(network_topology[message.sender_id], queues,
                                     online, message)
    IN  <<done[1], done[2]>>

\* route_message: <<queues, returned flag>>
route_message(queues, modes, online, srv, message) ==
    IF modes[message.sender_id] = "offline"
    THEN <<queues, FALSE>>
    ELSE IF modes[message.sender_id] = "online" /\ srv
         THEN deliver_via_server(queues, message)
         ELSE deliver_via_p2p(queues, online, message)

\* send_message with the clock advanced before the sender is looked up
SimSendMessage_clock_first(sender_id, receiver_id, content) ==
    /\ sim_lamport_clock < MaxSends
    /\ sim_lamport_clock' = sim_lamport_clock + 1
    /\ IF sender_id \notin SimNodes
       THEN /\ sim_result' = FALSE
            /\ UNCHANGED <<blocks, last_block_hash, message_queues>>
       ELSE LET message == [ sender_id     |-> sender_id,
                             receiver_id   |-> receiver_id,
                             content       |-> content,
                             lamport_clock |-> sim_lamport_clock + 1,
                             hop_count     |-> 0,
                             max_hops      |-> 5 ]
                ledger == add_message(blocks[sender_id], last_block_hash[sender_id],
                                      sender_id, message)
                routed == route_message(message_queues, connectivity_mode, is_online,
                                        sim_server_online, message)
            IN  /\ blocks' = [blocks EXCEPT ![sender_id] = ledger[1]]
                /\ last_block_hash' = [last_block_hash EXCEPT ![sender_id] = ledger[2]]
                /\ message_queues' = routed[1]
                /\ sim_result' = routed[2]
    /\ UNCHANGED <<sim_server_online, connectivity_mode, is_online, pending_messages>>
    /\ UNCHANGED <<demoVars, rtVars, chVars, sessVars, aesVars, hopVars>>

\* P2PNetworkSimulator.send_message
SimSendMessage(sender_id, receiver_id, content) ==
    /\ sim_lamport_clock < MaxSends
    /\ IF sender_id \notin SimNodes
       THEN /\ sim_result' = FALSE
            /\ UNCHANGED <<sim_server_online, sim_lamport_clock, connectivity_mode,
                           is_online, blocks, last_block_hash, pending_messages,
                           message_queues>>
       ELSE LET clock == sim_lamport_clock + 1
                message == [ sender_id     |-> sender_id,
                             receiver_id   |-> receiver_id,
                             content       |-> content,
                             lamport_clock |-> clock,
                             hop_count     |-> 0,
                             max_hops      |-> 5 ]
                ledger == add_message(blocks[sender_id], last_block_hash[sender_id],
                                      sender_id, message)
                routed == route_message(message_queues, connectivity_mode, is_online,
                                        sim_server_online, message)
            IN  /\ sim_lamport_clock' = clock
                /\ message_queues' = routed[1]
                /\ sim_result' = routed[2]
                /\ blocks' = [blocks EXCEPT ![sender_id] = ledger[1]]
                /\ last_block_hash' = [last_block_hash EXCEPT ![sender_id] = ledger[2]]
                /\ UNCHANGED <<sim_server_online, connectivity_mode, is_online,
                               pending_messages>>
    /\ UNCHANGED <<demoVars, rtVars, chVars, sessVars, aesVars, hopVars>>

\* P2PNetworkSimulator.simulate_server_failure
SimServerFailure ==
    /\ sim_server_online' = FALSE
    /\ connectivity_mode' = [n \in SimNodes |->
          IF connectivity_mode[n] = "online" THEN "p2p_wifi" ELSE connectivity_mode[n]]
    /\ UNCHANGED <<sim_lamport_clock, is_online, blocks, last_block_hash,
                   pending_messages, message_queues, sim_result>>
    /\ UNCHANGED <<demoVars, rtVars, chVars, sessVars, aesVars, hopVars>>

\* P2PNetworkSimulator.simulate_server_recovery; sync_all_nodes / sync_node only
\* collect sync_conflicts in a local list and print, they assign no field.
SimServerRecovery ==
    /\ sim_server_online' = TRUE
    /\ connectivity_mode' = [n \in SimNodes |->
          IF connectivity_mode[n] \in {"p2p_wifi", "p2p_radio"}
          THEN "online" ELSE connectivity_mode[n]]
    /\ UNCHANGED <<sim_lamport_clock, is_online, blocks, last_block_hash,
                   pending_messages, message_queues, sim_result>>
    /\ UNCHANGED <<demoVars, rtVars, chVars, sessVars, aesVars, hopVars>>

\* P2PNetworkSimulator.simulate_node_dropout
SimNodeDropout(node_id) ==
    /\ IF node_id \in SimNodes
       THEN /\ connectivity_mode' = [connectivity_mode EXCEPT ![node_id] = "offline"]
            /\ is_online' = [is_online EXCEPT ![node_id] = FALSE]
       ELSE UNCHANGED <<connectivity_mode, is_online>>
    /\ UNCHANGED <<sim_server_online, sim_lamport_clock, blocks, last_block_hash,
                   pending_messages, message_queues, sim_result>>
    /\ UNCHANGED <<demoVars, rtVars, chVars, sessVars, aesVars, hopVars>>

\* simulate_node_reconnect with a sync_node that refetches: the node's own
\* blocks are discarded
SimNodeReconnect_refetching(node_id) ==
    /\ IF node_id \in SimNodes
       THEN /\ connectivity_mode' = [connectivity_mode EXCEPT ![node_id] = "p2p_wifi"]
            /\ is_online' = [is_online EXCEPT ![node_id] = TRUE]
            /\ blocks' = [blocks EXCEPT ![node_id] = <<>>]
       ELSE UNCHANGED <<connectivity_mode, is_online, blocks>>
    /\ UNCHANGED <<sim_server_online, sim_lamport_clock, last_block_hash,
                   pending_messages, message_queues, sim_result>>
    /\ UNCHANGED <<demoVars, rtVars, chVars, sessVars, aesVars, hopVars>>

\* P2PNetworkSimulator.simulate_node_reconnect (sync_node assigns no field)
SimNodeReconnect(node_id) ==
    /\ IF node_id \in SimNodes
       THEN /\ connectivity_mode' = [connectivity_mode EXCEPT ![node_id] = "p2p_wifi"]
            /\ is_online' = [is_online EXCEPT ![node_id] = TRUE]
       ELSE UNCHANGED <<connectivity_mode, is_online>>
    /\ UNCHANGED <<sim_server_online, sim_lamport_clock, blocks, last_block_hash,
                   pending_messages, message_queues, sim_result>>
    /\ UNCHANGED <<demoVars, rtVars, chVars, sessVars, aesVars, hopVars>>

SimNext ==
    \/ \E s \in SenderInputs, r \in ReceiverInputs, c \in Contents : SimSendMessage(s, r, c)
    \/ SimServerFailure
    \/ SimServerRecovery
    \/ \E n \in NodeInputs : SimNodeDropout(n)
    \/ \E n \in NodeInputs : SimNodeReconnect(n)

\* ------------------------------------------------------------------------
\* BattlefieldCommunicationServer: registry and routing
\* ------------------------------------------------------------------------
NodeOrder == <<"alpha_1", "bravo_1", "charlie_1", "delta_1", "echo_1">>
Nodes == Range(NodeOrder)
Clients == 1..NumClients

\* demo_nodes_data of initialize_demo_nodes
position ==
    [n \in Nodes |->
        CASE n = "alpha_1"   -> <<100, 150>>
          [] n = "bravo_1"   -> <<300, 200>>
          [] n = "charlie_1" -> <<200, 350>>
          [] n = "delta_1"   -> <<450, 180>>
          [] n = "echo_1"    -> <<350, 100>>]

MessageTypes == {"chat", "command", "alert", "status", "system"}

\* calculate_distance(pos1, pos2) <= 200, on the squares
WithinP2PRange(pos1, pos2) ==
    (pos1[1] - pos2[1]) * (pos1[1] - pos2[1])
      + (pos1[2] - pos2[2]) * (pos1[2] - pos2[2]) <= 200 * 200

FloodMaxHops == 3

\* route_message_p2p, the loop over self.nodes.items() for one current_node
RECURSIVE ScanTargets(_, _, _, _, _, _)
ScanTargets(order, pos, st, current_node, i, acc) ==
    IF i > Len(order) THEN acc
    ELSE LET target_id == order[i]
             take == /\ target_id \notin acc.visited
                     /\ st[target_id] # "offline"
                     /\ WithinP2PRange(pos[current_node], pos[target_id])
             next == IF take
                     THEN [ visited    |-> acc.visited \cup {target_id},
                            next_hops  |-> Append(acc.next_hops, target_id),
                            route_path |-> Append(acc.route_path, target_id) ]
                     ELSE acc
         IN  ScanTargets(order, pos, st, current_node, i + 1, next)

\* route_message_p2p, the loop over current_hops
RECURSIVE ScanHops(_, _, _, _, _, _)
ScanHops(order, pos, st, current_hops, j, acc) ==
    IF j > Len(current_hops) THEN acc
    ELSE LET current_node == current_hops[j]
             next == IF current_node \notin Range(order) \/ st[current_node] = "offline"
                     THEN acc
                     ELSE ScanTargets(order, pos, st, current_node, 1, acc)
         IN  ScanHops(order, pos, st, current_hops, j + 1, next)

\* route_message_p2p, the loop over range(max_hops)
RECURSIVE Flood(_, _, _, _, _, _, _)
Flood(order, pos, st, current_hops, hop, visited, route_path) ==
    IF hop >= FloodMaxHops THEN route_path
    ELSE LET acc == ScanHops(order, pos, st, current_hops, 1,
                             [ visited |-> visited, next_hops |-> <<>>,
                               route_path |-> route_path ])
         IN  IF acc.next_hops = <<>> THEN acc.route_path
             ELSE Flood(order, pos, st, acc.next_hops, hop + 1, acc.visited, acc.route_path)

\* route_message_p2p: the route_path it leaves in the message (empty before the call)
route_message_p2p(order, pos, st, sender_id) ==
    Flood(order, pos, st, <<sender_id>>, 0, {sender_id}, <<>>)

\* ------------------------------------------------------------------------
\* BattlefieldCommunicationServer: handlers
\* ------------------------------------------------------------------------
NoMessage == [ sender_id |-> None, message_type |-> "chat", lamport_clock |-> 0,
               recipients |-> <<>>, route_path |-> <<>> ]
Idle == [ pc |-> "idle", msg |-> NoMessage ]
At(label) == [ pc |-> label, msg |-> NoMessage ]

Event(event_type, severity) == [ event_type |-> event_type, severity |-> severity ]

DemoInit ==
    /\ server_online = TRUE
    /\ network_state = "centralized"
    /\ status = [n \in Nodes |-> "online"]
    /\ lamport_clock = [n \in Nodes |-> 0]
    /\ message_queue = [n \in Nodes |-> <<>>]
    /\ messages = <<>>
    /\ events = <<>>
    /\ task = [c \in Clients |-> Idle]
    /\ recovery_tasks = {}

InFlight == Cardinality({c \in Clients : task[c].pc = "send"})

DemoSenderInputs == {"alpha_1", "bravo_1", None, UnknownNode}
RecipientInputs == {<<>>, <<"delta_1">>}
MessageTypeInputs == {"chat", "bogus"}

\* handle_send_message without the store of the new clock in the sender's node
HandleSendMessage_clock_not_stored(c, sender_id, message_type, recipients, delayed) ==
    /\ task[c].pc = "idle"
    /\ Len(messages) + InFlight < MaxMessages
    /\ IF message_type \notin MessageTypes \/ sender_id \notin Nodes
       THEN \* MessageType(...) raises ValueError, caught and logged by
            \* handle_client_connection; or the early return
            UNCHANGED <<lamport_clock, messages, task>>
       ELSE LET clock == lamport_clock[sender_id] + 1
                central == server_online /\ network_state = "centralized"
                path == IF central THEN <<"central_server">>
                        ELSE route_message_p2p(NodeOrder, position, status, sender_id)
                message == [ sender_id     |-> sender_id,
                             message_type  |-> message_type,
                             lamport_clock |-> clock,
                             recipients    |-> IF ~central /\ recipients = <<>>
                                               THEN NodeOrder ELSE recipients,
                             route_path    |-> path ]
                sleeps == IF central THEN delayed ELSE Len(path) > 0
            IN  /\ UNCHANGED lamport_clock
                /\ IF sleeps
                   THEN /\ task' = [task EXCEPT ![c] = [pc |-> "send", msg |-> message]]
                        /\ UNCHANGED messages
                   ELSE /\ messages' = Append(messages, message)
                        /\ UNCHANGED task
    /\ UNCHANGED <<server_online, network_state, status, message_queue, events,
                   recovery_tasks>>
    /\ UNCHANGED <<simVars, rtVars, chVars, sessVars, aesVars, hopVars>>

\* handle_send_message up to the first suspension (the sleep of the chosen
\* route, when it sleeps).  delayed is the draw random.random() < 0.1 of
\* route_message_centralized.
HandleSendMessage(c, sender_id, message_type, recipients, delayed) ==
    /\ task[c].pc = "idle"
    /\ Len(messages) + InFlight < MaxMessages
    /\ IF message_type \notin MessageTypes \/ sender_id \notin Nodes
       THEN \* MessageType(...) raises ValueError, caught and logged by
            \* handle_client_connection; or the early return
            UNCHANGED <<lamport_clock, messages, task>>
       ELSE LET clock == lamport_clock[sender_id] + 1
                central == server_online /\ network_state = "centralized"
                path == IF central THEN <<"central_server">>
                        ELSE route_message_p2p(NodeOrder, position, status, sender_id)
                message == [ sender_id     |-> sender_id,
                             message_type  |-> message_type,
                             lamport_clock |-> clock,
                             recipients    |-> IF ~central /\ recipients = <<>>
                                               THEN NodeOrder ELSE recipients,
                             route_path    |-> path ]
                sleeps == IF central THEN delayed ELSE Len(path) > 0
            IN  /\ lamport_clock' = [lamport_clock EXCEPT ![sender_id] = clock]
                /\ IF sleeps
                   THEN /\ task' = [task EXCEPT ![c] = [pc |-> "send", msg |-> message]]
                        /\ UNCHANGED messages
                   ELSE /\ messages' = Append(messages, message)
                        /\ UNCHANGED task
    /\ UNCHANGED <<server_online, network_state, status, message_queue, events,
                   recovery_tasks>>
    /\ UNCHANGED <<simVars, rtVars, chVars, sessVars, aesVars, hopVars>>

\* handle_send_message after the routing sleep: record, then broadcast
FinishSendMessage(c) ==
    /\ task[c].pc = "send"
    /\ messages' = Append(messages, task[c].msg)
    /\ task' = [task EXCEPT ![c] = Idle]
    /\ UNCHANGED <<server_online, network_state, status, lamport_clock, message_queue,
                   events, recovery_tasks>>
    /\ UNCHANGED <<simVars, rtVars, chVars, sessVars, aesVars, hopVars>>

\* simulate_server_failure switching every node, whatever its status
simulate_server_failure_all_nodes ==
    IF ~server_online
    THEN UNCHANGED <<server_online, network_state, status, events>>
    ELSE /\ Len(events) < MaxEvents
         /\ server_online' = FALSE
         /\ network_state' = "p2p_fallback"
         /\ status' = [n \in Nodes |-> "p2p_only"]
         /\ events' = Append(events, Event("server_failure", "critical"))

\* simulate_server_failure, on server_online, network_state, status, events
simulate_server_failure ==
    IF ~server_online
    THEN UNCHANGED <<server_online, network_state, status, events>>
    ELSE /\ Len(events) < MaxEvents
         /\ server_online' = FALSE
         /\ network_state' = "p2p_fallback"
         /\ status' = [n \in Nodes |->
               IF status[n] = "online" THEN "p2p_only" ELSE status[n]]
         /\ events' = Append(events, Event("server_failure", "critical"))

\* simulate_server_recovery up to its asyncio.sleep(2)
simulate_server_recovery_begin ==
    /\ ~server_online
    /\ server_online' = TRUE
    /\ network_state' = "centralized"
    /\ status' = [n \in Nodes |->
          IF status[n] = "p2p_only" THEN "online" ELSE status[n]]

\* synchronize_network taking the smallest clock where the code takes the largest
synchronize_network_min ==
    LET min_clock == CHOOSE x \in {lamport_clock[n] : n \in Nodes} :
                        \A m \in Nodes : x <= lamport_clock[m]
    IN  /\ lamport_clock' = [n \in Nodes |-> min_clock + 1]
        /\ message_queue' = [n \in Nodes |-> <<>>]

\* synchronize_network, on lamport_clock and message_queue
synchronize_network ==
    LET max_clock == SetMax({lamport_clock[n] : n \in Nodes})
    IN  /\ lamport_clock' = [n \in Nodes |-> max_clock + 1]
        /\ message_queue' = [n \in Nodes |-> <<>>]

\* simulate_server_recovery after the sleep
simulate_server_recovery_end ==
    /\ Len(events) < MaxEvents
    /\ synchronize_network
    /\ events' = Append(events, Event("server_recovery", "info"))

\* What a broadcast_to_clients call does to its caller: it returns, or it
\* raises because client_connections changed while it was suspended in a
\* websocket.send (BroadcastRaised of SessionSpec).  The exception leaves the
\* calling handler; handle_client_connection logs it.
BroadcastOutcomes == {"returned", "raised"}

\* simulate_node_dropout; dropout_node is the draw of random.choice, outcome
\* what its broadcasts do: create_task comes after them
simulate_node_dropout(dropout_node, outcome) ==
    /\ status[dropout_node] \in {"online", "p2p_only"}
    /\ Len(events) < MaxEvents
    /\ status' = [status EXCEPT ![dropout_node] = "offline"]
    /\ events' = Append(events, Event("node_dropout", "warning"))
    /\ recovery_tasks' = IF outcome = "returned"
                         THEN recovery_tasks \cup {dropout_node}
                         ELSE recovery_tasks

NoNodeToDrop == \A n \in Nodes : status[n] \notin {"online", "p2p_only"}

HandleServerFailure(c) ==
    /\ task[c].pc = "idle"
    /\ simulate_server_failure
    /\ UNCHANGED <<lamport_clock, message_queue, messages, task, recovery_tasks>>
    /\ UNCHANGED <<simVars, rtVars, chVars, sessVars, aesVars, hopVars>>

HandleServerRecovery(c) ==
    /\ task[c].pc = "idle"
    /\ IF server_online
       THEN UNCHANGED <<server_online, network_state, status, task>>
       ELSE /\ simulate_server_recovery_begin
            /\ task' = [task EXCEPT ![c] = At("recovery")]
    /\ UNCHANGED <<lamport_clock, message_queue, messages, events, recovery_tasks>>
    /\ UNCHANGED <<simVars, rtVars, chVars, sessVars, aesVars, hopVars>>

FinishServerRecovery(c) ==
    /\ task[c].pc = "recovery"
    /\ simulate_server_recovery_end
    /\ task' = [task EXCEPT ![c] = Idle]
    /\ UNCHANGED <<server_online, network_state, status, messages, recovery_tasks>>
    /\ UNCHANGED <<simVars, rtVars, chVars, sessVars, aesVars, hopVars>>

HandleNodeDropout(c) ==
    /\ task[c].pc = "idle"
    /\ \/ \E n \in Nodes, o \in BroadcastOutcomes : simulate_node_dropout(n, o)
       \/ NoNodeToDrop /\ UNCHANGED <<status, events, recovery_tasks>>
    /\ UNCHANGED <<server_online, network_state, lamport_clock, message_queue,
                   messages, task>>
    /\ UNCHANGED <<simVars, rtVars, chVars, sessVars, aesVars, hopVars>>

\* schedule_node_recovery bringing the node back ONLINE whatever the server flag
ScheduleNodeRecovery_always_online(node_id) ==
    /\ node_id \in recovery_tasks
    /\ status' = [status EXCEPT ![node_id] = "online"]
    /\ events' = Append(events, Event("node_recovery", "info"))
    /\ recovery_tasks' = recovery_tasks \ {node_id}
    /\ UNCHANGED <<server_online, network_state, lamport_clock, message_queue,
                   messages, task>>
    /\ UNCHANGED <<simVars, rtVars, chVars, sessVars, aesVars, hopVars>>

\* schedule_node_recovery after its sleep.  MaxEvents caps the commands of
\* the clients; a task that was scheduled always runs.
ScheduleNodeRecovery(node_id) ==
    /\ node_id \in recovery_tasks
    /\ status' = [status EXCEPT ![node_id] =
                     IF server_online THEN "online" ELSE "p2p_only"]
    /\ events' = Append(events, Event("node_recovery", "info"))
    /\ recovery_tasks' = recovery_tasks \ {node_id}
    /\ UNCHANGED <<server_online, network_state, lamport_clock, message_queue,
                   messages, task>>
    /\ UNCHANGED <<simVars, rtVars, chVars, sessVars, aesVars, hopVars>>

\* simulate_network_partition: the split is computed and only reported
HandleNetworkPartition(c) ==
    /\ task[c].pc = "idle"
    /\ IF Len(NodeOrder) < 2
       THEN UNCHANGED events
       ELSE /\ Len(events) < MaxEvents
            /\ events' = Append(events, Event("network_partition", "critical"))
    /\ UNCHANGED <<server_online, network_state, status, lamport_clock, message_queue,
                   messages, task, recovery_tasks>>
    /\ UNCHANGED <<simVars, rtVars, chVars, sessVars, aesVars, hopVars>>

\* handle_force_sync
HandleForceSync(c) ==
    /\ task[c].pc = "idle"
    /\ Len(events) < MaxEvents
    /\ synchronize_network
    /\ events' = Append(events, Event("manual_sync", "info"))
    /\ UNCHANGED <<server_online, network_state, status, messages, task, recovery_tasks>>
    /\ UNCHANGED <<simVars, rtVars, chVars, sessVars, aesVars, hopVars>>

\* get_network_status, an unknown frame type, an unknown scenario: nothing is assigned
HandleOtherFrame(c) ==
    /\ task[c].pc = "idle"
    /\ UNCHANGED <<demoVars, simVars, rtVars, chVars, sessVars, aesVars, hopVars>>

\* simulate_full_battlefield_demo, from one sleep to the next; a broadcast
\* that raises ends the demo where it is
FullDemoStart(c) ==
    /\ task[c].pc = "idle"
    /\ task' = [task EXCEPT ![c] = At("demo_phase1")]
    /\ UNCHANGED <<server_online, network_state, status, lamport_clock, message_queue,
                   messages, events, recovery_tasks>>
    /\ UNCHANGED <<simVars, rtVars, chVars, sessVars, aesVars, hopVars>>

FullDemoFailure(c) ==
    /\ task[c].pc = "demo_phase1"
    /\ simulate_server_failure
    /\ \E o \in BroadcastOutcomes :
          task' = [task EXCEPT ![c] = IF server_online /\ o = "raised"
                                      THEN Idle ELSE At("demo_phase2")]
    /\ UNCHANGED <<lamport_clock, message_queue, messages, recovery_tasks>>
    /\ UNCHANGED <<simVars, rtVars, chVars, sessVars, aesVars, hopVars>>

FullDemoDropout(c) ==
    /\ task[c].pc = "demo_phase2"
    /\ \/ \E n \in Nodes, o \in BroadcastOutcomes :
             /\ simulate_node_dropout(n, o)
             /\ task' = [task EXCEPT ![c] = IF o = "raised"
                                             THEN Idle ELSE At("demo_phase3")]
       \/ /\ NoNodeToDrop
          /\ UNCHANGED <<status, events, recovery_tasks>>
          /\ task' = [task EXCEPT ![c] = At("demo_phase3")]
    /\ UNCHANGED <<server_online, network_state, lamport_clock, message_queue, messages>>
    /\ UNCHANGED <<simVars, rtVars, chVars, sessVars, aesVars, hopVars>>

FullDemoRecovery(c) ==
    /\ task[c].pc = "demo_phase3"
    /\ IF server_online
       THEN /\ task' = [task EXCEPT ![c] = At("demo_phase4")]
            /\ UNCHANGED <<server_online, network_state, status>>
       ELSE /\ simulate_server_recovery_begin
            /\ task' = [task EXCEPT ![c] = At("demo_recovery")]
    /\ UNCHANGED <<lamport_clock, message_queue, messages, events, recovery_tasks>>
    /\ UNCHANGED <<simVars, rtVars, chVars, sessVars, aesVars, hopVars>>

FullDemoFinishRecovery(c) ==
    /\ task[c].pc = "demo_recovery"
    /\ simulate_server_recovery_end
    /\ \E o \in BroadcastOutcomes :
          task' = [task EXCEPT ![c] = IF o = "raised" THEN Idle ELSE At("demo_phase4")]
    /\ UNCHANGED <<server_online, network_state, status, messages, recovery_tasks>>
    /\ UNCHANGED <<simVars, rtVars, chVars, sessVars, aesVars, hopVars>>

FullDemoComplete(c) ==
    /\ task[c].pc = "demo_phase4"
    /\ task' = [task EXCEPT ![c] = Idle]
    /\ UNCHANGED <<server_online, network_state, status, lamport_clock, message_queue,
                   messages, events, recovery_tasks>>
    /\ UNCHANGED <<simVars, rtVars, chVars, sessVars, aesVars, hopVars>>

DemoNext ==
    \/ \E c \in Clients, s \in DemoSenderInputs, t \in MessageTypeInputs,
          r \in RecipientInputs, d \in BOOLEAN : HandleSendMessage(c, s, t, r, d)
    \/ \E c \in Clients : FinishSendMessage(c)
    \/ \E c \in Clients : HandleServerFailure(c)
    \/ \E c \in Clients : HandleServerRecovery(c)
    \/ \E c \in Clients : FinishServerRecovery(c)
    \/ \E c \in Clients : HandleNodeDropout(c)
    \/ \E n \in Nodes : ScheduleNodeRecovery(n)
    \/ \E c \in Clients : HandleNetworkPartition(c)
    \/ \E c \in Clients : HandleForceSync(c)
    \/ \E c \in Clients : HandleOtherFrame(c)
    \/ \E c \in Clients : FullDemoStart(c)
    \/ \E c \in Clients : FullDemoFailure(c)
    \/ \E c \in Clients : FullDemoDropout(c)
    \/ \E c \in Clients : FullDemoRecovery(c)
    \/ \E c \in Clients : FullDemoFinishRecovery(c)
    \/ \E c \in Clients : FullDemoComplete(c)

\* ------------------------------------------------------------------------
\* route_message_p2p on an arbitrary registry
\* ------------------------------------------------------------------------
RoutePositions == {<<0, 0>>, <<150, 0>>, <<300, 0>>}
RouteStatuses == {"p2p_only", "offline"}

RtIdle ==
    /\ rt_nodes = 0
    /\ rt_position = <<>>
    /\ rt_status = <<>>
    /\ rt_sender = 0
    /\ rt_path = <<>>
    /\ rt_done = TRUE

RtInit ==
    /\ rt_nodes \in 1..MaxRouteNodes
    /\ rt_position \in [1..rt_nodes -> RoutePositions]
    /\ rt_status \in [1..rt_nodes -> RouteStatuses]
    /\ rt_sender \in 1..rt_nodes
    /\ rt_path = <<>>
    /\ rt_done = FALSE

RtOrder == [i \in 1..rt_nodes |-> i]

RtRoute ==
    /\ ~rt_done
    /\ rt_path' = route_message_p2p(RtOrder, rt_position, rt_status, rt_sender)
    /\ rt_done' = TRUE
    /\ UNCHANGED <<rt_nodes, rt_position, rt_status, rt_sender>>
    /\ UNCHANGED <<simVars, demoVars, chVars, sessVars, aesVars, hopVars>>

\* ------------------------------------------------------------------------
\* Chain validation on one chain
\* ------------------------------------------------------------------------
ChainContents == {"move", "hold"}
ChainNode == "alpha_1"

ChIdle ==
    /\ ch_kind = "ledger"
    /\ ch_blocks = <<>>
    /\ ch_last_hash = ZeroHash
    /\ ch_altered = 0
    /\ ch_checked = TRUE
    /\ ch_chain_valid = TRUE
    /\ ch_block_valid = <<>>

ChInit ==
    /\ ch_kind \in {"ledger", "foreign"}
    /\ ch_blocks = <<>>
    /\ ch_last_hash = ZeroHash
    /\ ch_altered = 0
    /\ ch_checked = FALSE
    /\ ch_chain_valid = FALSE
    /\ ch_block_valid = <<>>

ChMessage(content, clock) ==
    [ sender_id     |-> ChainNode,
      receiver_id   |-> None,
      content       |-> content,
      lamport_clock |-> clock,
      hop_count     |-> 0,
      max_hops      |-> 5 ]

\* LocalLedger.add_message on the chain of a ledger
ChAddMessage(content) ==
    /\ ch_kind = "ledger"
    /\ ch_altered = 0
    /\ Len(ch_blocks) < MaxChain
    /\ LET ledger == add_message(ch_blocks, ch_last_hash, ChainNode,
                                 ChMessage(content, Len(ch_blocks) + 1))
       IN  /\ ch_blocks' = ledger[1]
           /\ ch_last_hash' = ledger[2]
    /\ ch_checked' = FALSE
    /\ UNCHANGED <<ch_kind, ch_altered, ch_chain_valid, ch_block_valid>>
    /\ UNCHANGED <<simVars, demoVars, rtVars, sessVars, aesVars, hopVars>>

\* A block of a chain built outside LocalLedger: any block_number, any
\* previous_hash, hashed and mined as mine_block does
ChForeignBlock(block_number, previous_hash, content) ==
    /\ ch_kind = "foreign"
    /\ ch_altered = 0
    /\ Len(ch_blocks) < MaxChain
    /\ LET block == [ block_number  |-> block_number,
                      previous_hash |-> previous_hash,
                      message_data  |-> ChMessage(content, Len(ch_blocks) + 1),
                      node_id       |-> ChainNode,
                      nonce         |-> 0 ]
           mined == mine_block(block, Difficulty)
           stored == [ block_number  |-> block.block_number,
                       previous_hash |-> block.previous_hash,
                       message_data  |-> block.message_data,
                       node_id       |-> block.node_id,
                       nonce         |-> mined[2],
                       block_hash    |-> mined[1] ]
       IN  /\ ch_blocks' = Append(ch_blocks, stored)
           /\ ch_last_hash' = mined[1]
    /\ ch_checked' = FALSE
    /\ UNCHANGED <<ch_kind, ch_altered, ch_chain_valid, ch_block_valid>>
    /\ UNCHANGED <<simVars, demoVars, rtVars, sessVars, aesVars, hopVars>>

\* blocks[i]['message_data']['content'] = content, nothing re-mined
ChAlterContent(i, content) ==
    /\ ch_altered = 0
    /\ i \in 1..Len(ch_blocks)
    /\ content # ch_blocks[i].message_data.content
    /\ ch_blocks' = [ch_blocks EXCEPT ![i].message_data.content = content]
    /\ ch_altered' = i
    /\ ch_checked' = FALSE
    /\ UNCHANGED <<ch_kind, ch_last_hash, ch_chain_valid, ch_block_valid>>
    /\ UNCHANGED <<simVars, demoVars, rtVars, sessVars, aesVars, hopVars>>

\* validate_chain on the chain, validate_block_hash on each of its blocks
ChValidate ==
    /\ ~ch_checked
    /\ ch_chain_valid' = validate_chain(ch_blocks)
    /\ ch_block_valid' = [i \in 1..Len(ch_blocks) |-> validate_block_hash(ch_blocks[i])]
    /\ ch_checked' = TRUE
    /\ UNCHANGED <<ch_kind, ch_blocks, ch_last_hash, ch_altered>>
    /\ UNCHANGED <<simVars, demoVars, rtVars, sessVars, aesVars, hopVars>>

ForeignNumbers == {Len(ch_blocks), Len(ch_blocks) + 1}
ForeignLinks == {ch_last_hash, (ch_last_hash + 1) % HashSpace}

ChainNext ==
    \/ \E c \in ChainContents : ChAddMessage(c)
    \/ \E bn \in ForeignNumbers, ph \in ForeignLinks, c \in ChainContents :
          ChForeignBlock(bn, ph, c)
    \/ \E i \in 1..MaxChain, c \in ChainContents : ChAlterContent(i, c)
    \/ ChValidate

\* ------------------------------------------------------------------------
\* Client sessions and broadcast_to_clients
\* ------------------------------------------------------------------------
Sessions == 1..NumSessions
BgTask == 0                      \* a schedule_node_recovery task
Tasks == Sessions \cup {BgTask}
Hole == 0                        \* an entry of the dict after del

Frame(type, severity) == [ type |-> type, severity |-> severity ]
NoFrame == Frame("none", "none")
FrameInputs == { Frame("network_topology", "none"), Frame("system_event", "warning") }
FailingFrames == { "missing_sender", "unknown_sender", "bad_message_type",
                   "unknown_frame_type", "unknown_scenario" }

BcIdle == [ pc |-> "idle", frame |-> NoFrame, current |-> 0, di_used |-> 0, di_pos |-> 0,
            di_len |-> 0, disconnected |-> <<>>, audience |-> {}, delivered |-> {} ]
BcRaised == [BcIdle EXCEPT !.pc = "raised"]

SessIdle ==
    /\ session = [c \in Sessions |-> "closed"]
    /\ client_connections = <<>>
    /\ frames_handled = [t \in Tasks |-> 0]
    /\ bc = [t \in Tasks |-> BcIdle]

SessInit ==
    /\ session = [c \in Sessions |-> "new"]
    /\ client_connections = <<>>
    /\ frames_handled = [t \in Tasks |-> 0]
    /\ bc = [t \in Tasks |-> BcIdle]

\* the keys of the dict, and len(dict)
Registered(entries) == Range(entries) \ {Hole}
Used(entries) == Cardinality(Registered(entries))

\* del self.client_connections[client_id]
DelEntry(entries, client_id) ==
    [i \in 1..Len(entries) |-> IF entries[i] = client_id THEN Hole ELSE entries[i]]

\* the entries at or after position i that hold a key
LiveFrom(entries, i) == {j \in i..Len(entries) : entries[j] # Hole}

\* for client_id in disconnected: del self.client_connections[client_id];
\* <<entries, "ok" | "error">>, KeyError when the key is gone already
RECURSIVE CleanUp(_, _, _)
CleanUp(entries, disconnected, k) ==
    IF k > Len(disconnected) THEN <<entries, "ok">>
    ELSE IF disconnected[k] \notin Registered(entries) THEN <<entries, "error">>
    ELSE CleanUp(DelEntry(entries, disconnected[k]), disconnected, k + 1)

\* handle_client_connection up to its first await
SessConnect(c) ==
    /\ session[c] = "new"
    /\ session' = [session EXCEPT ![c] = "open"]
    /\ client_connections' = Append(client_connections, c)
    /\ UNCHANGED <<frames_handled, bc>>
    /\ UNCHANGED <<simVars, demoVars, rtVars, chVars, aesVars, hopVars>>

\* the peer goes away: every later websocket.send raises ConnectionClosed
SessTransportBreak(c) ==
    /\ session[c] = "open"
    /\ session' = [session EXCEPT ![c] = "broken"]
    /\ UNCHANGED <<client_connections, frames_handled, bc>>
    /\ UNCHANGED <<simVars, demoVars, rtVars, chVars, aesVars, hopVars>>

\* handle_client_connection: the async for ends, the finally clause runs
SessDisconnect(c) ==
    /\ session[c] = "broken"
    /\ bc[c].pc = "idle"
    /\ session' = [session EXCEPT ![c] = "closed"]
    /\ client_connections' = IF c \in Registered(client_connections)
                             THEN DelEntry(client_connections, c)
                             ELSE client_connections
    /\ UNCHANGED <<frames_handled, bc>>
    /\ UNCHANGED <<simVars, demoVars, rtVars, chVars, aesVars, hopVars>>

\* handle_client_message on a frame that fails: MessageType(...) raises and
\* handle_client_connection logs it; handle_send_message returns; the unknown
\* type or scenario is logged.  No frame is sent on any of these paths.
SessFailingFrame(c, failure) ==
    /\ session[c] = "open"
    /\ bc[c].pc = "idle"
    /\ frames_handled[c] < MaxFrames
    /\ frames_handled' = [frames_handled EXCEPT ![c] = @ + 1]
    /\ UNCHANGED <<session, client_connections, bc>>
    /\ UNCHANGED <<simVars, demoVars, rtVars, chVars, aesVars, hopVars>>

\* broadcast_to_clients up to its first await websocket.send
broadcast_begin(t, frame) ==
    IF Registered(client_connections) = {}
    THEN bc' = [bc EXCEPT ![t] = BcIdle]
    ELSE LET first == CHOOSE j \in LiveFrom(client_connections, 1) :
                         \A k \in LiveFrom(client_connections, 1) : j <= k
         IN  bc' = [bc EXCEPT ![t] =
                     [ pc |-> "sending", frame |-> frame,
                       current |-> client_connections[first],
                       di_used |-> Used(client_connections),
                       di_pos |-> first,
                       di_len |-> Used(client_connections) - 1,
                       disconnected |-> <<>>,
                       audience |-> Registered(client_connections),
                       delivered |-> {} ]]

\* a frame whose handler broadcasts, taken up by the task of session c
SessBroadcast(c, frame) ==
    /\ session[c] = "open"
    /\ bc[c].pc = "idle"
    /\ frames_handled[c] < MaxFrames
    /\ frames_handled' = [frames_handled EXCEPT ![c] = @ + 1]
    /\ broadcast_begin(c, frame)
    /\ UNCHANGED <<session, client_connections>>
    /\ UNCHANGED <<simVars, demoVars, rtVars, chVars, aesVars, hopVars>>

\* schedule_node_recovery reaching its broadcast_to_clients
BgBroadcast(frame) ==
    /\ bc[BgTask].pc = "idle"
    /\ frames_handled[BgTask] < MaxFrames
    /\ frames_handled' = [frames_handled EXCEPT ![BgTask] = @ + 1]
    /\ broadcast_begin(BgTask, frame)
    /\ UNCHANGED <<session, client_connections>>
    /\ UNCHANGED <<simVars, demoVars, rtVars, chVars, aesVars, hopVars>>

\* broadcast_to_clients from the return of one websocket.send to the next
\* await, or to its end: the except clauses, the next step of the iteration
\* over the dict (RuntimeError when the dict changed meanwhile) and, after the
\* loop, the clean-up.  An exception leaves the coroutine at once (pc "raised").
BroadcastStep(t) ==
    /\ bc[t].pc = "sending"
    /\ LET b == bc[t]
           sent == session[b.current] = "open"
           delivered == IF sent THEN b.delivered \cup {b.current} ELSE b.delivered
           disconnected == IF sent THEN b.disconnected ELSE Append(b.disconnected, b.current)
           rest == LiveFrom(client_connections, b.di_pos + 1)
           finished(result) == IF result = "ok" THEN BcIdle ELSE BcRaised
       IN  IF b.di_used # Used(client_connections)
           THEN /\ bc' = [bc EXCEPT ![t] = finished("error")]
                /\ UNCHANGED client_connections
           ELSE IF rest = {}
           THEN LET cleaned == CleanUp(client_connections, disconnected, 1)
                IN  /\ bc' = [bc EXCEPT ![t] = finished(cleaned[2])]
                    /\ client_connections' = cleaned[1]
           ELSE IF b.di_len = 0
           THEN /\ bc' = [bc EXCEPT ![t] = finished("error")]
                /\ UNCHANGED client_connections
           ELSE LET i == CHOOSE j \in rest : \A k \in rest : j <= k
                IN  /\ bc' = [bc EXCEPT ![t] =
                                [ b EXCEPT !.current = client_connections[i],
                                           !.di_pos = i, !.di_len = @ - 1,
                                           !.delivered = delivered,
                                           !.disconnected = disconnected ]]
                    /\ UNCHANGED client_connections
    /\ UNCHANGED <<session, frames_handled>>
    /\ UNCHANGED <<simVars, demoVars, rtVars, chVars, aesVars, hopVars>>

\* the exception of a broadcast reaches handle_client_connection, which logs
\* it and goes on to the next frame; in a schedule_node_recovery task it ends
\* the task
BroadcastRaised(t) ==
    /\ bc[t].pc = "raised"
    /\ bc' = [bc EXCEPT ![t] = BcIdle]
    /\ UNCHANGED <<session, client_connections, frames_handled>>
    /\ UNCHANGED <<simVars, demoVars, rtVars, chVars, aesVars, hopVars>>

SessionNext ==
    \/ \E c \in Sessions : SessConnect(c)
    \/ \E c \in Sessions : SessTransportBreak(c)
    \/ \E c \in Sessions : SessDisconnect(c)
    \/ \E c \in Sessions, k \in FailingFrames : SessFailingFrame(c, k)
    \/ \E c \in Sessions, f \in FrameInputs : SessBroadcast(c, f)
    \/ \E f \in FrameInputs : BgBroadcast(f)
    \/ \E t \in Tasks : BroadcastStep(t)
    \/ \E t \in Tasks : BroadcastRaised(t)

\* ------------------------------------------------------------------------
\* MilitaryCrypto: aes_encrypt / aes_decrypt
\* ------------------------------------------------------------------------
ByteSpace == 256
TagSpace == Pow(ByteSpace, TagLen)

\* str.encode('utf-8'), for code points below 2048
EncodeChar(cp) ==
    IF cp < 128 THEN <<cp>> ELSE <<192 + (cp \div 64), 128 + (cp % 64)>>

RECURSIVE Utf8Encode(_)
Utf8Encode(str) ==
    IF str = <<>> THEN <<>> ELSE EncodeChar(Head(str)) \o Utf8Encode(Tail(str))

\* bytes.decode('utf-8'): [ok, str]; ok is FALSE for UnicodeDecodeError
RECURSIVE Utf8Decode(_, _, _)
Utf8Decode(bytes, i, acc) ==
    IF i > Len(bytes) THEN [ok |-> TRUE, str |-> acc]
    ELSE IF bytes[i] < 128
         THEN Utf8Decode(bytes, i + 1, Append(acc, bytes[i]))
    ELSE IF /\ bytes[i] \in 194..223
            /\ i + 1 <= Len(bytes)
            /\ bytes[i + 1] \in 128..191
         THEN Utf8Decode(bytes, i + 2,
                         Append(acc, (bytes[i] - 192) * 64 + (bytes[i + 1] - 128)))
    ELSE [ok |-> FALSE, str |-> <<>>]

\* bytes.hex(): two hex digits per byte
ToHex(bytes) ==
    [k \in 1..(2 * Len(bytes)) |->
        IF k % 2 = 1 THEN bytes[(k + 1) \div 2] \div 16 ELSE bytes[k \div 2] % 16]

\* bytes.fromhex(): defined on an even number of digits
HexOk(hex) == Len(hex) % 2 = 0
FromHex(hex) == [i \in 1..(Len(hex) \div 2) |-> 16 * hex[2 * i - 1] + hex[2 * i]]

\* AES.new(key, AES.MODE_GCM, iv) of the library, by what it guarantees: a
\* keyed stream that depends on key, iv and position, and a tag that is a
\* keyed function of iv and ciphertext and changes when one byte of either does.
RECURSIVE WeightedSum(_, _)
WeightedSum(bytes, i) ==
    IF i > Len(bytes) THEN 0 ELSE (2 * i + 1) * bytes[i] + WeightedSum(bytes, i + 1)

KeyStream(key, iv, i) == (7 * key + 13 * WeightedSum(iv, 1) + 5 * i + 3) % ByteSpace

GcmEncrypt(key, iv, data) ==
    [i \in 1..Len(data) |-> (data[i] + KeyStream(key, iv, i)) % ByteSpace]

GcmDecrypt(key, iv, ciphertext) ==
    [i \in 1..Len(ciphertext) |->
        (ciphertext[i] + ByteSpace - KeyStream(key, iv, i)) % ByteSpace]

GcmTag(key, iv, ciphertext) ==
    LET value == ( 17 * key + 31 * WeightedSum(iv, 1) + WeightedSum(ciphertext, 1)
                   + 257 * Len(ciphertext) ) % TagSpace
    IN  [j \in 1..TagLen |-> (value \div Pow(ByteSpace, TagLen - j)) % ByteSpace]

\* MilitaryCrypto.aes_encrypt; iv is the draw of get_random_bytes
aes_encrypt(plaintext, key, iv) ==
    LET data == Utf8Encode(plaintext)
        ciphertext == GcmEncrypt(key, iv, data)
        tag == GcmTag(key, iv, ciphertext)
    IN  [ ciphertext |-> ToHex(ciphertext), iv |-> ToHex(iv), tag |-> ToHex(tag) ]

Failed == [ done |-> TRUE, ok |-> FALSE, plaintext |-> <<>> ]
Returned(str) == [ done |-> TRUE, ok |-> TRUE, plaintext |-> str ]
NoResult == [ done |-> FALSE, ok |-> FALSE, plaintext |-> <<>> ]

\* aes_decrypt with cipher.decrypt in place of cipher.decrypt_and_verify
aes_decrypt_unverified(encrypted_data, key) ==
    IF ~(HexOk(encrypted_data.iv) /\ HexOk(encrypted_data.ciphertext)
           /\ HexOk(encrypted_data.tag))
    THEN Failed
    ELSE LET iv == FromHex(encrypted_data.iv)
             ciphertext == FromHex(encrypted_data.ciphertext)
             decoded == Utf8Decode(GcmDecrypt(key, iv, ciphertext), 1, <<>>)
         IN  IF decoded.ok THEN Returned(decoded.str) ELSE Failed

\* MilitaryCrypto.aes_decrypt: every exception becomes ValueError
aes_decrypt(encrypted_data, key) ==
    IF ~(HexOk(encrypted_data.iv) /\ HexOk(encrypted_data.ciphertext)
           /\ HexOk(encrypted_data.tag))
    THEN Failed
    ELSE LET iv == FromHex(encrypted_data.iv)
             ciphertext == FromHex(encrypted_data.ciphertext)
             tag == FromHex(encrypted_data.tag)
         IN  IF tag # GcmTag(key, iv, ciphertext)
             THEN Failed
             ELSE LET decoded == Utf8Decode(GcmDecrypt(key, iv, ciphertext), 1, <<>>)
                  IN  IF decoded.ok THEN Returned(decoded.str) ELSE Failed

AesKeys == {11, 200}
AesChars == {65, 233}
IvBytes == {0, 7}
TamperDeltas == {1, 128}
BlobFields == {"ciphertext", "iv", "tag"}
NoBlob == [ ciphertext |-> <<>>, iv |-> <<>>, tag |-> <<>> ]

AesIdle ==
    /\ aes_key = 0
    /\ aes_plaintext = <<>>
    /\ aes_blob = NoBlob
    /\ aes_tampered = FALSE
    /\ aes_result = NoResult

AesInit ==
    /\ aes_key \in AesKeys
    /\ aes_plaintext \in UNION {[1..n -> AesChars] : n \in 0..MaxPlain}
    /\ aes_blob = NoBlob
    /\ aes_tampered = FALSE
    /\ aes_result = NoResult

AesEncrypt(iv) ==
    /\ aes_blob = NoBlob
    /\ aes_blob' = aes_encrypt(aes_plaintext, aes_key, iv)
    /\ UNCHANGED <<aes_key, aes_plaintext, aes_tampered, aes_result>>
    /\ UNCHANGED <<simVars, demoVars, rtVars, chVars, sessVars, hopVars>>

\* one byte of one entry of the sealed dict is changed
AesTamper(field, i, delta) ==
    /\ aes_blob # NoBlob
    /\ ~aes_tampered
    /\ ~aes_result.done
    /\ i \in 1..Len(FromHex(aes_blob[field]))
    /\ aes_blob' = [aes_blob EXCEPT ![field] =
                      ToHex([FromHex(@) EXCEPT ![i] = (@ + delta) % ByteSpace])]
    /\ aes_tampered' = TRUE
    /\ UNCHANGED <<aes_key, aes_plaintext, aes_result>>
    /\ UNCHANGED <<simVars, demoVars, rtVars, chVars, sessVars, hopVars>>

AesDecrypt ==
    /\ aes_blob # NoBlob
    /\ ~aes_result.done
    /\ aes_result' = aes_decrypt(aes_blob, aes_key)
    /\ UNCHANGED <<aes_key, aes_plaintext, aes_blob, aes_tampered>>
    /\ UNCHANGED <<simVars, demoVars, rtVars, chVars, sessVars, hopVars>>

CryptoNext ==
    \/ \E iv \in [1..IvLen -> IvBytes] : AesEncrypt(iv)
    \/ \E f \in BlobFields, i \in 1..(2 * MaxPlain + IvLen + TagLen), d \in TamperDeltas :
          AesTamper(f, i, d)
    \/ AesDecrypt

\* ------------------------------------------------------------------------
\* deliver_via_p2p on an arbitrary network: add_node takes any number of
\* nodes and establish_p2p_connections connects every pair in range
\* ------------------------------------------------------------------------
HopSender == "alpha_1"
HopPeerOrder == <<"peer_1", "peer_2", "peer_3", "peer_4", "peer_5", "peer_6",
                  "peer_7", "peer_8", "peer_9">>
HopPeers(n) == {HopPeerOrder[i] : i \in 1..n}

\* the P2PMessage send_message builds and hands to route_message
HopMessage(receiver_id) ==
    [ sender_id     |-> HopSender,
      receiver_id   |-> receiver_id,
      content       |-> "move",
      lamport_clock |-> 1,
      hop_count     |-> 0,
      max_hops      |-> 5 ]

HpIdle ==
    /\ hp_peers = {}
    /\ hp_online = [p \in {} |-> TRUE]
    /\ hp_queues = [p \in {} |-> <<>>]
    /\ hp_message = HopMessage(None)
    /\ hp_done = TRUE

HpInit ==
    /\ \E n \in 0..MaxPeers : hp_peers = HopPeers(n)
    /\ hp_online \in [hp_peers -> BOOLEAN]
    /\ hp_queues = [p \in hp_peers |-> <<>>]
    /\ \E r \in {None, UnknownNode} \cup hp_peers : hp_message = HopMessage(r)
    /\ hp_done = FALSE

HpDeliver ==
    /\ ~hp_done
    /\ LET done == deliver_via_p2p_from(hp_peers, hp_queues, hp_online, hp_message)
       IN  /\ hp_queues' = done[1]
           /\ hp_message' = done[3]
    /\ hp_done' = TRUE
    /\ UNCHANGED <<hp_peers, hp_online>>
    /\ UNCHANGED <<simVars, demoVars, rtVars, chVars, sessVars, aesVars>>

\* ------------------------------------------------------------------------
\* Specifications
\* ------------------------------------------------------------------------
Init == SimInit /\ DemoInit /\ RtIdle /\ ChIdle /\ SessIdle /\ AesIdle /\ HpIdle
Next == DemoNext
Spec == Init /\ [][Next]_vars

SimSpec == Init /\ [][SimNext]_vars

RouteInit == SimInit /\ DemoInit /\ RtInit /\ ChIdle /\ SessIdle /\ AesIdle /\ HpIdle
RouteNext == RtRoute
RouteSpec == RouteInit /\ [][RouteNext]_vars

ChainInit == SimInit /\ DemoInit /\ RtIdle /\ ChInit /\ SessIdle /\ AesIdle /\ HpIdle
ChainSpec == ChainInit /\ [][ChainNext]_vars

SessionInit == SimInit /\ DemoInit /\ RtIdle /\ ChIdle /\ SessInit /\ AesIdle /\ HpIdle
SessionSpec == SessionInit /\ [][SessionNext]_vars

CryptoInit == SimInit /\ DemoInit /\ RtIdle /\ ChIdle /\ SessIdle /\ AesInit /\ HpIdle
CryptoSpec == CryptoInit /\ [][CryptoNext]_vars

\* The hub under the scheduling of its event loop: a coroutine asleep in
\* asyncio.sleep is resumed when its delay is over, be it a client's handler
\* or a schedule_node_recovery task
Resume(c) ==
    \/ FinishSendMessage(c)
    \/ FinishServerRecovery(c)
    \/ FullDemoFailure(c)
    \/ FullDemoDropout(c)
    \/ FullDemoRecovery(c)
    \/ FullDemoFinishRecovery(c)
    \/ FullDemoComplete(c)

FairSpec ==
    /\ Init /\ [][Next]_vars
    /\ \A c \in Clients : WF_vars(Resume(c))
    /\ \A n \in Nodes : WF_vars(ScheduleNodeRecovery(n))

HopInit == SimInit /\ DemoInit /\ RtIdle /\ ChIdle /\ SessIdle /\ AesIdle /\ HpInit
HopNext == HpDeliver
HopSpec == HopInit /\ [][HopNext]_vars

\* ------------------------------------------------------------------------
\* Properties
\* ------------------------------------------------------------------------
IsPrefix(s, t) == Len(s) <= Len(t) /\ \A i \in 1..Len(s) : s[i] = t[i]

NoDuplicates(s) == \A i, j \in 1..Len(s) : i # j => s[i] # s[j]

\* C1: in every ledger the first block has block_number 0 and the zero
\* previous_hash, every later block has the block_number of its predecessor
\* plus one and its predecessor's block_hash as previous_hash, and
\* last_block_hash is the hash of the last block (the zero hash when empty).
C1_HashLink ==
    \A n \in SimNodes :
        /\ \A i \in 1..Len(blocks[n]) :
              IF i = 1
              THEN /\ blocks[n][i].block_number = 0
                   /\ blocks[n][i].previous_hash = ZeroHash
              ELSE /\ blocks[n][i].block_number = blocks[n][i - 1].block_number + 1
                   /\ blocks[n][i].previous_hash = blocks[n][i - 1].block_hash
        /\ last_block_hash[n] = IF blocks[n] = <<>> THEN ZeroHash
                                ELSE blocks[n][Len(blocks[n])].block_hash

\* a ledger that add_message has extended twice, with a non-zero first hash
C1_Witness ==
    \E n \in SimNodes :
        /\ Len(blocks[n]) = 2
        /\ blocks[n][1].block_hash # ZeroHash
        /\ blocks[n][2].previous_hash = blocks[n][1].block_hash

\* C2: every node's Lamport clock is at least the lamport_clock of every
\* message delivered to it: every message in its inbound queue and every
\* recorded or in-flight message whose route_path names it.
HubMessages == Range(messages) \cup {task[c].msg : c \in {d \in Clients : task[d].pc = "send"}}

C2_ClockCoversIngested ==
    \A n \in Nodes :
        /\ \A i \in 1..Len(message_queue[n]) :
              lamport_clock[n] >= message_queue[n][i].lamport_clock
        /\ \A m \in HubMessages :
              n \in Range(m.route_path) => lamport_clock[n] >= m.lamport_clock

\* C3: a send whose sender is neither ONLINE nor P2P_ONLY routes and records
\* nothing, grows the sender's queue by exactly one and leaves every other
\* queue as it was.
C3_OfflineSendDeferred ==
    [][\A c \in Clients, s \in Nodes, t \in MessageTypes, r \in RecipientInputs,
          d \in BOOLEAN :
          (HandleSendMessage(c, s, t, r, d) /\ status[s] \notin {"online", "p2p_only"})
          => /\ messages' = messages
             /\ task'[c].pc # "send"
             /\ Len(message_queue'[s]) = Len(message_queue[s]) + 1
             /\ \A n \in Nodes \ {s} : message_queue'[n] = message_queue[n]]_vars

C5_OneAppendPerSend ==
    [][\A s \in SenderInputs, r \in ReceiverInputs, c \in Contents :
          SimSendMessage(s, r, c)
          => IF s \in SimNodes
             THEN /\ Len(blocks'[s]) = Len(blocks[s]) + 1
                  /\ IsPrefix(blocks[s], blocks'[s])
                  /\ blocks'[s][Len(blocks'[s])].message_data.sender_id = s
                  /\ \A n \in SimNodes \ {s} : blocks'[n] = blocks[n]
             ELSE /\ blocks' = blocks
                  /\ sim_lamport_clock' = sim_lamport_clock]_vars

\* two registered sends by one sender: its ledger holds both, no other ledger any
C5_Witness ==
    \E s \in SimNodes :
        /\ Len(blocks[s]) = 2
        /\ sim_lamport_clock = 2
        /\ \A n \in SimNodes \ {s} : blocks[n] = <<>>

\* C6: the inbound queue of a node that is OFFLINE never grows, on the
\* centralized path as on the P2P path, for a targeted message as for a
\* broadcast.
C6_OfflineNeverReceives ==
    [][\A n \in SimNodes :
          connectivity_mode[n] = "offline" => message_queues'[n] = message_queues[n]]_vars

\* C7: server_recovery applied while the server is up changes nothing: not the
\* server flag, no node's connectivity mode, no clock, no queue, no ledger.
C7_RecoveryIdempotent ==
    [][(SimServerRecovery /\ sim_server_online)
          => UNCHANGED <<sim_server_online, sim_lamport_clock, connectivity_mode,
                         is_online, blocks, last_block_hash, message_queues>>]_vars

\* C8: server_failure on an up server sets it down, moves every ONLINE node
\* to P2P_ONLY, leaves every other node's status (OFFLINE nodes stay OFFLINE)
\* and appends exactly one event, of severity critical; on a server already
\* down it changes no state and appends no event.
ServerFailureStep == \E c \in Clients : HandleServerFailure(c) \/ FullDemoFailure(c)

C8_ServerFailure ==
    [][ServerFailureStep
          => IF server_online
             THEN /\ server_online' = FALSE
                  /\ \A n \in Nodes :
                        /\ status[n] = "online" => status'[n] = "p2p_only"
                        /\ status[n] # "online" => status'[n] = status[n]
                  /\ Len(events') = Len(events) + 1
                  /\ IsPrefix(events, events')
                  /\ events'[Len(events')].severity = "critical"
             ELSE UNCHANGED <<server_online, network_state, status, lamport_clock,
                              message_queue, messages, events, recovery_tasks>>]_vars

\* server_failure has just acted on a registry with an OFFLINE node
C8_Witness ==
    /\ ~server_online
    /\ events # <<>>
    /\ events[Len(events)] = Event("server_failure", "critical")
    /\ \E n \in Nodes : status[n] = "offline"
    /\ \E n \in Nodes : status[n] = "p2p_only"

\* C9: every change of a node's status is one of ONLINE -> P2P_ONLY,
\* P2P_ONLY -> ONLINE, ONLINE or P2P_ONLY -> OFFLINE, OFFLINE -> RECONNECTING,
\* RECONNECTING -> ONLINE or P2P_ONLY.
StatusTransitions ==
    { <<"online", "p2p_only">>, <<"p2p_only", "online">>,
      <<"online", "offline">>, <<"p2p_only", "offline">>,
      <<"offline", "reconnecting">>,
      <<"reconnecting", "online">>, <<"reconnecting", "p2p_only">> }

C9_StatusMachine ==
    [][\A n \in Nodes :
          status'[n] # status[n] => <<status[n], status'[n]>> \in StatusTransitions]_vars

\* C10: a resync sets the clock of every node in ONLINE, P2P_ONLY or
\* RECONNECTING to the maximum clock over all nodes plus one, and leaves the
\* clock of every OFFLINE node as it was.
ResyncStep ==
    \E c \in Clients :
        HandleForceSync(c) \/ FinishServerRecovery(c) \/ FullDemoFinishRecovery(c)

C10_ResyncClocks ==
    [][ResyncStep
          => \A n \in Nodes :
                lamport_clock'[n] =
                    IF status[n] \in {"online", "p2p_only", "reconnecting"}
                    THEN SetMax({lamport_clock[m] : m \in Nodes}) + 1
                    ELSE lamport_clock[n]]_vars

\* C11: after a resync (server_recovery, which runs sync_all_nodes) the ledger
\* of every participating node holds the message of every block that was in
\* the ledger of any participating node: missing blocks have been appended.
Participating(modes) == {n \in SimNodes : modes[n] # "offline"}

C11_ResyncMergesLedgers ==
    [][SimServerRecovery
          => \A n \in Participating(connectivity_mode'), m \in Participating(connectivity_mode') :
                \A i \in 1..Len(blocks[m]) :
                   \E j \in 1..Len(blocks'[n]) :
                      blocks'[n][j].message_data = blocks[m][i].message_data]_vars

\* C12: after a resync every participating ledger lists the same messages in
\* the same order, and that order is ascending (lamport_clock, sender_id),
\* whatever the order the messages arrived in.
OrderKeys(ledger_blocks) ==
    [i \in 1..Len(ledger_blocks) |->
        <<ledger_blocks[i].message_data.lamport_clock, ledger_blocks[i].message_data.sender_id>>]

KeyBefore(k1, k2) ==
    \/ k1[1] < k2[1]
    \/ k1[1] = k2[1] /\ NodeCode(k1[2]) < NodeCode(k2[2])

Ascending(keys) == \A i, j \in 1..Len(keys) : i < j => KeyBefore(keys[i], keys[j])

C12_ResyncTotalOrder ==
    [][SimServerRecovery
          => \A n \in Participating(connectivity_mode'), m \in Participating(connectivity_mode') :
                /\ OrderKeys(blocks'[n]) = OrderKeys(blocks'[m])
                /\ Ascending(OrderKeys(blocks'[n]))]_vars

\* C13: when one block of a chain built by add_message has had its message
\* content altered in place without re-mining, validate_block_hash rejects
\* that block and validate_chain / validate_block_chain rejects the chain,
\* whichever position the block has.
C13_TamperDetected ==
    (ch_kind = "ledger" /\ ch_altered # 0 /\ ch_checked)
        => /\ ~ch_block_valid[ch_altered]
           /\ ~ch_chain_valid

\* the first block of a two-block ledger chain was altered and validated
C13_WitnessFirst ==
    /\ ch_kind = "ledger" /\ ch_checked
    /\ Len(ch_blocks) = 2 /\ ch_altered = 1
    /\ ch_block_valid = <<FALSE, TRUE>>

\* C20: validate_block_chain accepts a chain only if every block links to its
\* predecessor's block_hash and carries its predecessor's block_number plus
\* one, and the first block has the zero previous_hash and block_number 0.
WellFormedChain(chain) ==
    \A i \in 1..Len(chain) :
        IF i = 1
        THEN /\ chain[i].previous_hash = ZeroHash
             /\ chain[i].block_number = 0
        ELSE /\ chain[i].previous_hash = chain[i - 1].block_hash
             /\ chain[i].block_number = chain[i - 1].block_number + 1

C20_ValidationConditions ==
    (ch_checked /\ ch_chain_valid) => WellFormedChain(ch_blocks)

\* C14: every block stored in a ledger has a block_hash that starts with
\* Difficulty zero digits and is the hash of the block's own fields with its
\* stored nonce, and no smaller nonce, counted from 0, gives a hash that
\* meets the target.
C14_ProofOfWork ==
    \A n \in SimNodes :
        \A i \in 1..Len(blocks[n]) :
            LET b == blocks[n][i]
            IN  /\ StartsWithTarget(b.block_hash, Difficulty)
                /\ validate_block_hash(b)
                /\ \A k \in 0..(b.nonce - 1) :
                      ~StartsWithTarget(calculate_block_hash([b EXCEPT !.nonce = k]), Difficulty)

\* one ledger holds a block found at nonce 0 and another a block that took a search
C14_Witness ==
    /\ \E n \in SimNodes : \E i \in 1..Len(blocks[n]) : blocks[n][i].nonce = 0
    /\ \E n \in SimNodes : \E i \in 1..Len(blocks[n]) : blocks[n][i].nonce > 1

\* C15: no step lowers any node's Lamport clock, and a send by a registered
\* sender with a recognised message type creates a message stamped with the
\* sender's clock before the send plus one and leaves the sender's clock at
\* that value.
CreatedMessage(c) ==
    IF task'[c].pc = "send" THEN task'[c].msg ELSE messages'[Len(messages')]

C15_ClockMonotonic ==
    [][/\ \A n \in Nodes : lamport_clock'[n] >= lamport_clock[n]
       /\ \A c \in Clients, s \in DemoSenderInputs \cap Nodes,
             t \in MessageTypeInputs \cap MessageTypes, r \in RecipientInputs,
             d \in BOOLEAN :
             HandleSendMessage(c, s, t, r, d)
             => /\ CreatedMessage(c).sender_id = s
                /\ CreatedMessage(c).lamport_clock = lamport_clock[s] + 1
                /\ lamport_clock'[s] = lamport_clock[s] + 1]_vars

\* a sender has sent twice, then a resync has lifted every clock above its second stamp
C15_Witness ==
    /\ \E i \in 1..Len(messages) : messages[i].lamport_clock = 2
    /\ \A n \in Nodes : lamport_clock[n] = 3

\* C16: a broadcast never fails, and when it ends every client that was
\* registered when it began and whose transport is intact has received the
\* frame and is still registered, whatever connects, disconnects or
\* broadcasts meanwhile; only clients whose transport is broken are removed.
C16_BroadcastIsolated ==
    [][\A t \in Tasks :
          (BroadcastStep(t) /\ bc'[t].pc # "sending")
          => /\ bc'[t].pc # "raised"
             /\ \A c \in bc[t].audience :
                   session[c] = "open"
                      => /\ c \in bc[t].delivered \cup {bc[t].current}
                         /\ c \in Registered(client_connections')
             /\ \A c \in Registered(client_connections) \ Registered(client_connections') :
                   session[c] # "open"]_vars

\* C17: every failing client frame (send_message with a missing or unknown
\* sender_id or an unrecognised message_type, an unknown frame type, an
\* unknown scenario) makes the hub send a system_event frame of severity
\* warning or critical.
C17_FailuresReported ==
    [][\A c \in Sessions, k \in FailingFrames :
          SessFailingFrame(c, k)
          => /\ bc'[c].pc = "sending"
             /\ bc'[c].frame.type = "system_event"
             /\ bc'[c].frame.severity \in {"warning", "critical"}]_vars

\* C18: a send on the P2P path that names a recipient the flood does not reach
\* is reported as a delivery failure: the message is neither recorded nor
\* announced as a new_message.
C18_UnreachableReported ==
    [][\A c \in Clients, s \in DemoSenderInputs \cap Nodes,
          t \in MessageTypeInputs \cap MessageTypes, r \in RecipientInputs \ {<<>>},
          d \in BOOLEAN :
          ( /\ ~(server_online /\ network_state = "centralized")
            /\ \E x \in Range(r) :
                  x \notin Range(route_message_p2p(NodeOrder, position, status, s))
            /\ HandleSendMessage(c, s, t, r, d) )
          => /\ messages' = messages
             /\ task'[c].pc # "send"]_vars

\* C19: aes_decrypt of an untouched aes_encrypt result, under the same key,
\* returns the plaintext; after one byte of the ciphertext, the iv or the tag
\* was changed it fails and returns no plaintext.
C19_AeadRoundTrip ==
    aes_result.done
        => IF aes_tampered
           THEN aes_result = Failed
           ELSE aes_result = Returned(aes_plaintext)

\* a plaintext with a two-byte character came back whole
C19_Witness ==
    /\ aes_result.ok
    /\ ~aes_tampered
    /\ Len(aes_plaintext) = MaxPlain
    /\ 233 \in Range(aes_plaintext)

\* C21: a send takes the centralized path (route_path is central_server
\* alone) exactly when the server is up and the sender's status is ONLINE,
\* and every other send by an ONLINE or P2P_ONLY sender takes the path the
\* P2P flood computes.
C21_CentralizedIffOnline ==
    [][\A c \in Clients, s \in DemoSenderInputs \cap Nodes,
          t \in MessageTypeInputs \cap MessageTypes, r \in RecipientInputs,
          d \in BOOLEAN :
          HandleSendMessage(c, s, t, r, d)
          => /\ (CreatedMessage(c).route_path = <<"central_server">>)
                    <=> (server_online /\ status[s] = "online")
             /\ (status[s] \in {"online", "p2p_only"}
                    /\ ~(server_online /\ status[s] = "online"))
                => CreatedMessage(c).route_path =
                       route_message_p2p(NodeOrder, position, status, s)]_vars

\* C22: every message has hop_count <= max_hops, the message deliver_via_p2p
\* was handed and every copy it queued, whatever the number of connected
\* online peers of the sender and whoever the message is addressed to.
C22_HopBound ==
    /\ hp_message.hop_count <= hp_message.max_hops
    /\ \A p \in hp_peers :
          \A i \in 1..Len(hp_queues[p]) :
              hp_queues[p][i].hop_count <= hp_queues[p][i].max_hops

\* The steps whose handler calls broadcast_to_clients with a network_topology
\* frame, built by get_network_topology from the registry the step leaves
\* (get_network_status broadcasts one too, and assigns nothing).  A dropout
\* whose broadcasts returned is one that scheduled its recovery.
TopologyBroadcast ==
    \/ \E c \in Clients : (HandleServerFailure(c) \/ FullDemoFailure(c)) /\ server_online
    \/ \E c \in Clients : FinishServerRecovery(c) \/ FullDemoFinishRecovery(c)
    \/ \E c \in Clients : /\ (HandleNodeDropout(c) \/ FullDemoDropout(c))
                           /\ recovery_tasks' # recovery_tasks
    \/ \E n \in Nodes : ScheduleNodeRecovery(n)

\* The registry fields get_network_topology reports
RegistryChanged ==
    \/ server_online' # server_online
    \/ network_state' # network_state
    \/ \E n \in Nodes :
          \/ status'[n] # status[n]
          \/ lamport_clock'[n] # lamport_clock[n]
          \/ Len(message_queue'[n]) # Len(message_queue[n])

\* simulate_server_recovery has assigned and is in its sleep: its topology
\* frame follows when it resumes
RecoveryBegun ==
    \E c \in Clients :
        /\ task[c].pc \notin {"recovery", "demo_recovery"}
        /\ task'[c].pc \in {"recovery", "demo_recovery"}

\* C23: every step that changes registry state visible in the topology (the
\* server flag, a node's status, lamport_clock or message_queue size) belongs
\* to an operation that broadcasts a network_topology frame built after the
\* change: send_message, force_sync, every scenario, scheduled node recovery.
C23_TopologyBroadcast ==
    [][RegistryChanged => (TopologyBroadcast \/ RecoveryBegun)]_vars

\* simulate_network_partition: the two groups it computes from the registry order
partition_size == Len(NodeOrder) \div 2
partition_a == {NodeOrder[i] : i \in 1..partition_size}
partition_b == {NodeOrder[i] : i \in (partition_size + 1)..Len(NodeOrder)}

PartitionGroup(n) == IF n \in partition_a THEN partition_a ELSE partition_b

\* a network_partition scenario has run (the hub has no operation that lifts it)
Partitioned == \E i \in 1..Len(events) : events[i].event_type = "network_partition"

\* C24: once network_partition has split the nodes into two groups, the
\* route_path of every message sent names no node of the group the sender is
\* not in.
C24_PartitionIsolates ==
    [][\A c \in Clients, s \in DemoSenderInputs \cap Nodes,
          t \in MessageTypeInputs \cap MessageTypes, r \in RecipientInputs,
          d \in BOOLEAN :
          (Partitioned /\ HandleSendMessage(c, s, t, r, d))
          => (Range(CreatedMessage(c).route_path) \cap Nodes) \subseteq PartitionGroup(s)]_vars

\* C25: node_dropout sets exactly one node that was ONLINE or P2P_ONLY to
\* OFFLINE and changes no other status (no status at all when there is no
\* such node); a node leaves OFFLINE only through its scheduled recovery, to
\* ONLINE if the server is up at that time and to P2P_ONLY if it is down; and
\* every node that is OFFLINE eventually leaves OFFLINE.
DropoutStep == \E c \in Clients : HandleNodeDropout(c) \/ FullDemoDropout(c)

C25_DropoutOneNode ==
    [][DropoutStep
          => IF NoNodeToDrop
             THEN UNCHANGED <<status, events, recovery_tasks>>
             ELSE \E n \in Nodes :
                     /\ status[n] \in {"online", "p2p_only"}
                     /\ status' = [status EXCEPT ![n] = "offline"]]_vars

C25_LeavesByRecovery ==
    [][\A n \in Nodes :
          (status[n] = "offline" /\ status'[n] # "offline")
          => /\ ScheduleNodeRecovery(n)
             /\ status'[n] = IF server_online THEN "online" ELSE "p2p_only"]_vars

C25_DropoutRecovers ==
    /\ C25_DropoutOneNode
    /\ C25_LeavesByRecovery
    /\ \A n \in Nodes : (status[n] = "offline") ~> (status[n] # "offline")

\* C26: a resync (simulate_server_recovery, which runs sync_all_nodes, and
\* simulate_node_reconnect, which runs sync_node) leaves the blocks each
\* ledger held as an unchanged prefix of the blocks it holds afterwards.
SimResyncStep == SimServerRecovery \/ \E n \in NodeInputs : SimNodeReconnect(n)

C26_ResyncKeepsBlocks ==
    [][SimResyncStep => \A n \in SimNodes : IsPrefix(blocks[n], blocks'[n])]_vars

\* bravo_1 was reconnected while the server was up (only sync_node's caller
\* leaves it in p2p_wifi then), holding a block older than one of alpha_1's
C26_Witness ==
    /\ sim_server_online
    /\ connectivity_mode["bravo_1"] = "p2p_wifi"
    /\ Len(blocks["bravo_1"]) = 1
    /\ Len(blocks["alpha_1"]) = 1
    /\ blocks["alpha_1"][1].message_data.lamport_clock
          > blocks["bravo_1"][1].message_data.lamport_clock

\* The new_message frames in the order their broadcasts begin:
\* handle_send_message calls broadcast_to_clients right after
\* self.messages.append(message), with no suspension in between
NewMessageFrames ==
    [i \in 1..Len(messages) |->
        [ sender_id     |-> messages[i].sender_id,
          lamport_clock |-> messages[i].lamport_clock,
          route_path    |-> messages[i].route_path ]]

\* C27: every new_message frame is of a recorded message, and the
\* new_message frames of one sender are broadcast in increasing lamport_clock
\* order, whatever the interleaving of the sends of different sessions,
\* delayed sends included.
C27_FramesInClockOrder ==
    \A i, j \in 1..Len(NewMessageFrames) :
        (i < j /\ NewMessageFrames[i].sender_id = NewMessageFrames[j].sender_id)
        => NewMessageFrames[i].lamport_clock < NewMessageFrames[j].lamport_clock

\* C28: in every reachable state of the hub server_online is true exactly
\* when network_state is CENTRALIZED, no node is P2P_ONLY while the server is
\* up and no node is ONLINE while it is down.
C28_ServerFlagAndStatuses ==
    /\ server_online <=> network_state = "centralized"
    /\ server_online => \A n \in Nodes : status[n] # "p2p_only"
    /\ ~server_online => \A n \in Nodes : status[n] # "online"

\* the server is down, one node came back from OFFLINE as P2P_ONLY and
\* another is still OFFLINE
C28_WitnessDown ==
    /\ ~server_online
    /\ network_state = "p2p_fallback"
    /\ events # <<>>
    /\ events[Len(events)].event_type = "node_recovery"
    /\ \E n \in Nodes : status[n] = "offline"

\* simulate_server_recovery resumes from its sleep, resyncs and appends its
\* 'server_recovery' event
ServerRecoveryAnnounced ==
    \E c \in Clients : FinishServerRecovery(c) \/ FullDemoFinishRecovery(c)

\* C29: whenever simulate_server_recovery appends its 'server_recovery'
\* event (Network synchronized successfully) the server is online: no
\* server_failure has intervened during its sync delay, whatever the other
\* sessions did meanwhile.
C29_RecoveryAnnouncedOnline ==
    [][ServerRecoveryAnnounced
          => /\ server_online'
             /\ events'[Len(events')].event_type = "server_recovery"]_vars

\* The (sender_id, lamport_clock) pairs of the messages the hub has created:
\* those recorded, in order, then those of the sends still in their routing sleep
CreatedKeys ==
    LET recorded == [i \in 1..Len(messages) |->
                        <<messages[i].sender_id, messages[i].lamport_clock>>]
        sleeping(c) == IF task[c].pc = "send"
                       THEN << <<task[c].msg.sender_id, task[c].msg.lamport_clock>> >>
                       ELSE <<>>
        RECURSIVE inflight(_)
        inflight(c) == IF c > NumClients THEN <<>> ELSE sleeping(c) \o inflight(c + 1)
    IN  recorded \o inflight(1)

\* The lamport_clock of every block of every ledger of the simulator
SimClocks ==
    LET RECURSIVE clocks(_)
        clocks(i) == IF i > Len(SimNodeOrder) THEN <<>>
                     ELSE [k \in 1..Len(blocks[SimNodeOrder[i]]) |->
                              blocks[SimNodeOrder[i]][k].message_data.lamport_clock]
                          \o clocks(i + 1)
    IN  clocks(1)

====
